---- MODULE Spec2Model ----
(***************************************************************************)
(* Model of libdex/OptInvocation.c: dexOptGenerateCacheFileName and        *)
(* dexOptCreateEmptyHeader.                                                *)
(*                                                                         *)
(* C strings are sequences of one-character strings (without the           *)
(* terminating NUL); a NULL pointer is the value NULL.  The buffers keep   *)
(* their real size (512 bytes); long inputs are built with Pad.            *)
(***************************************************************************)
EXTENDS Integers, Sequences, FiniteSets, TLC

VARIABLES
    pc,             \* position of the calling thread
    \* ---- dexOptGenerateCacheFileName: arguments and process environment
    fileName, subFileName,
    cwd,            \* current working directory, NULL when it cannot be read
    envCache, envData, envRoot,     \* getenv() values, NULL when unset
    propDataOnly, propCacheOnly,    \* property_get() values ("" when unset)
    dexRootInit,    \* indeterminate content of the uninitialised dexRoot
    \* ---- dexOptGenerateCacheFileName: locals
    absoluteFile, nameBuf, cacheRoot, dataRoot, systemRoot, dexRoot,
    stored,         \* largest number of bytes (with NUL) put in a 512-byte buffer
    cwdConsulted,   \* getcwd() has been called
    prefixMatched,  \* outcome of the strncmp() test at line 122
    result,         \* returned string, NULL on failure
    \* ---- dexOptCreateEmptyHeader
    file, fdPos,    \* content and write position of the open descriptor
    fileAtCall, posAtCall,
    errno, assertsEnabled, bigEndian,
    actual,         \* return value of write()
    writeCalls,     \* number of write() calls made
    hdrRet          \* return value of dexOptCreateEmptyHeader

genVars == <<fileName, subFileName, cwd, envCache, envData, envRoot,
             propDataOnly, propCacheOnly, dexRootInit, absoluteFile, nameBuf,
             cacheRoot, dataRoot, systemRoot, dexRoot, stored, cwdConsulted,
             prefixMatched, result>>
hdrVars == <<file, fdPos, fileAtCall, posAtCall, errno, assertsEnabled,
             bigEndian, actual, writeCalls, hdrRet>>
vars == <<pc, genVars, hdrVars>>

----------------------------------------------------------------------------
(* Values *)

NULL == <<"NULL">>
WILD == <<"WILD">>      \* a pointer into unmapped memory
EmptyStr == <<>>
Min(a, b) == IF a <= b THEN a ELSE b
Max(a, b) == IF a >= b THEN a ELSE b
Pad(n) == [i \in 1..n |-> "a"]

sizeofNameBuf == 512
kBufLen == sizeofNameBuf - 1
kDexCachePath == <<"d", "a", "l", "v", "i", "k", "-", "c", "a", "c", "h", "e">>
kClassesDex == <<"c", "l", "a", "s", "s", "e", "s", ".", "d", "e", "x">>
One == <<"1">>

----------------------------------------------------------------------------
(* C library calls used by the code *)

\* strncat(dest, src, n): appends at most n characters of src to dest.
\* n bounds what is taken from src, not the size of dest.
Strncat(dest, src, n) == dest \o SubSeq(src, 1, Min(Len(src), n))

\* snprintf(buf, size, "%s/%s", a, b): at most size-1 characters are kept.
Snprintf(size, a, b) ==
    LET full == a \o <<"/">> \o b
    IN  SubSeq(full, 1, Min(Len(full), size - 1))

\* strncmp(a, b, n) == 0
CharAt(s, i) == IF i <= Len(s) THEN s[i] ELSE "NUL"
StrncmpEq(a, b, n) ==
    \A i \in 1..n :
        (\A j \in 1..(i - 1) : CharAt(a, j) # "NUL") => CharAt(a, i) = CharAt(b, i)

\* strcmp(a, b) == 0
StrcmpEq(a, b) == a = b

\* getcwd(buf, size): NULL when the directory cannot be read or does not
\* fit in size bytes with its NUL.
Getcwd(dir, size) == IF dir = NULL \/ Len(dir) + 1 > size THEN NULL ELSE dir

----------------------------------------------------------------------------
(* Inputs *)

MaxOver == 1    \* how far past the buffer length the long inputs go

DataAppFoo == <<"/", "d", "a", "t", "a", "/", "a", "p", "p", "/", "f", "o", "o", ".", "a", "p", "k">>
SystemAppBar == <<"/", "s", "y", "s", "t", "e", "m", "/", "a", "p", "p", "/", "b", "a", "r", ".", "a", "p", "k">>
FooDex == <<"f", "o", "o", ".", "d", "e", "x">>
MntSystemAppBar == <<"/", "m", "n", "t", "/", "s", "y", "s", "t", "e", "m", "/", "a", "p", "p", "/", "b", "a", "r", ".", "a", "p", "k">>
SystemicJar == <<"/", "s", "y", "s", "t", "e", "m", "i", "c", ".", "j", "a", "r">>
HomeUser == <<"/", "h", "o", "m", "e", "/", "u", "s", "e", "r">>
MntSystem == <<"/", "m", "n", "t", "/", "s", "y", "s", "t", "e", "m">>

ShortFileNames ==
    {DataAppFoo, SystemAppBar, FooDex, MntSystemAppBar, SystemicJar, <<"/">>, EmptyStr}
LongFileNames ==
    {<<"/">> \o Pad(n) : n \in (kBufLen - 1)..(kBufLen - 1 + MaxOver)}
    \cup {Pad(kBufLen + MaxOver)}
    \cup {Pad(n) : n \in (kBufLen - Len(HomeUser) - 1)..(kBufLen - Len(HomeUser) - 1 + MaxOver)}
FileNames == ShortFileNames \cup LongFileNames
SubFileNames == {NULL, kClassesDex, <<"a", "/", "b">>}
Cwds == {NULL, HomeUser, <<"/">> \o Pad(kBufLen - 1)}
CacheEnvValues == {NULL, <<"/", "c">>, <<"/">> \o Pad(kBufLen - 2)}
DataEnvValues == {NULL, <<"/", "d">>}
RootEnvValues == {NULL, MntSystem, <<"/", "s", "y", "s">>}
DataOnlyValues == {EmptyStr, One, <<"0">>}
CacheOnlyValues == {EmptyStr, One}
\* what the uninitialised dexRoot can hold: NULL, the address of some
\* string, or an address that cannot be read
IndeterminatePointers == {NULL, <<"/", "j", "u", "n", "k">>, WILD}

----------------------------------------------------------------------------
(* dexOptGenerateCacheFileName *)

\* lines 64-87: the absolute path, NULL when getcwd() fails
AbsolutePath(fn, sub, dir) ==
    LET relative == CharAt(fn, 1) # "/"
        got      == Getcwd(dir, kBufLen)
        a1       == IF relative THEN Strncat(got, <<"/">>, kBufLen) ELSE EmptyStr
        a2       == Strncat(a1, fn, kBufLen)
        a3       == IF sub # NULL
                    THEN Strncat(Strncat(a2, <<"/">>, kBufLen), sub, kBufLen)
                    ELSE a2
    IN  IF relative /\ got = NULL THEN NULL ELSE a3

\* Flatten started at the first character instead of the second
FlattenFromStart(s) == [i \in 1..Len(s) |-> IF s[i] = "/" THEN "@" ELSE s[i]]

\* Flatten left out, so that the roots are compared with the real path
FlattenSkipped(s) == s

\* lines 92-98: every '/' after the first character becomes '@'
Flatten(s) == [i \in 1..Len(s) |-> IF i > 1 /\ s[i] = "/" THEN "@" ELSE s[i]]

\* lines 104-116: environment values with their defaults
OrDefault(v, d) == IF v = NULL THEN d ELSE v
DefaultCache == <<"/", "c", "a", "c", "h", "e">>
DefaultData == <<"/", "d", "a", "t", "a">>
DefaultSystem == <<"/", "s", "y", "s", "t", "e", "m">>

\* the test of line 122 made with strcmp
UnderSystemRootWhole(abs, sysRoot) == StrcmpEq(abs, sysRoot)

\* line 122: strncmp(absoluteFile, systemRoot, strlen(systemRoot)) == 0
UnderSystemRoot(abs, sysRoot) == StrncmpEq(abs, sysRoot, Len(sysRoot))

\* lines 118-133 with dexopt-data-only overriding dexopt-cache-only
SelectDexRootDataOnlyFirst(init, abs, sysRoot, cRoot, dataOnly, cacheOnly) ==
    LET d0 == IF init = NULL THEN DefaultData ELSE init
    IN  IF StrcmpEq(dataOnly, One) THEN d0
        ELSE IF UnderSystemRoot(abs, sysRoot) \/ StrcmpEq(cacheOnly, One)
             THEN cRoot ELSE d0

\* lines 118-133: the value of dexRoot passed to snprintf
SelectDexRoot(init, abs, sysRoot, cRoot, dataOnly, cacheOnly) ==
    LET d0 == IF init = NULL THEN DefaultData ELSE init
        d1 == IF UnderSystemRoot(abs, sysRoot) /\ ~StrcmpEq(dataOnly, One)
              THEN cRoot ELSE d0
    IN  IF StrcmpEq(cacheOnly, One) THEN cRoot ELSE d1

\* lines 135-139: the content of nameBuf
ComposeName(root, abs) ==
    Strncat(Snprintf(kBufLen, root, kDexCachePath), abs, kBufLen)

Call_dexOptGenerateCacheFileName ==
    /\ pc = "idle"
    /\ \E fn \in FileNames, sub \in SubFileNames, dir \in Cwds,
          ec \in CacheEnvValues, ed \in DataEnvValues, er \in RootEnvValues,
          pd \in DataOnlyValues, pco \in CacheOnlyValues,
          ind \in IndeterminatePointers :
            /\ fileName' = fn
            /\ subFileName' = sub
            /\ cwd' = dir
            /\ envCache' = ec
            /\ envData' = ed
            /\ envRoot' = er
            /\ propDataOnly' = pd
            /\ propCacheOnly' = pco
            /\ dexRootInit' = ind
    /\ pc' = "abs"
    /\ UNCHANGED <<absoluteFile, nameBuf, cacheRoot, dataRoot, systemRoot,
                   dexRoot, stored, cwdConsulted, prefixMatched, result>>
    /\ UNCHANGED hdrVars

\* lines 64-87
BuildAbsolutePath ==
    /\ pc = "abs"
    /\ LET abs == AbsolutePath(fileName, subFileName, cwd)
       IN  /\ cwdConsulted' = (CharAt(fileName, 1) # "/")
           /\ IF abs = NULL
              THEN /\ result' = NULL
                   /\ pc' = "failed"
                   /\ UNCHANGED <<absoluteFile, stored>>
              ELSE /\ absoluteFile' = abs
                   /\ stored' = Len(abs) + 1
                   \* writing past the end of absoluteFile is undefined:
                   \* the neighbouring stack is overwritten and the call
                   \* goes on, or the process dies
                   /\ \/ pc' = "flatten"
                      \/ Len(abs) + 1 > sizeofNameBuf /\ pc' = "crashed"
                   /\ UNCHANGED result
    /\ UNCHANGED <<fileName, subFileName, cwd, envCache, envData, envRoot,
                   propDataOnly, propCacheOnly, dexRootInit, nameBuf,
                   cacheRoot, dataRoot, systemRoot, dexRoot, prefixMatched>>
    /\ UNCHANGED hdrVars

\* lines 92-98
FlattenPath ==
    /\ pc = "flatten"
    /\ absoluteFile' = Flatten(absoluteFile)
    /\ pc' = "root"
    /\ UNCHANGED <<fileName, subFileName, cwd, envCache, envData, envRoot,
                   propDataOnly, propCacheOnly, dexRootInit, nameBuf,
                   cacheRoot, dataRoot, systemRoot, dexRoot, stored,
                   cwdConsulted, prefixMatched, result>>
    /\ UNCHANGED hdrVars

\* lines 104-133
SelectRoot ==
    /\ pc = "root"
    /\ cacheRoot' = OrDefault(envCache, DefaultCache)
    /\ dataRoot' = OrDefault(envData, DefaultData)
    /\ systemRoot' = OrDefault(envRoot, DefaultSystem)
    /\ prefixMatched' = UnderSystemRoot(absoluteFile, systemRoot')
    /\ dexRoot' = SelectDexRoot(dexRootInit, absoluteFile, systemRoot',
                                cacheRoot', propDataOnly, propCacheOnly)
    /\ pc' = "compose"
    /\ UNCHANGED <<fileName, subFileName, cwd, envCache, envData, envRoot,
                   propDataOnly, propCacheOnly, dexRootInit, absoluteFile,
                   nameBuf, stored, cwdConsulted, result>>
    /\ UNCHANGED hdrVars

\* lines 135-142
ComposeAndReturn ==
    /\ pc = "compose"
    /\ IF dexRoot = WILD
       THEN \* snprintf reads through an unreadable pointer
            /\ pc' = "crashed"
            /\ UNCHANGED <<nameBuf, stored, result>>
       ELSE LET name == ComposeName(dexRoot, absoluteFile)
            IN  /\ nameBuf' = name
                /\ stored' = Max(stored, Len(name) + 1)
                /\ \/ /\ pc' = "done"
                      \* strdup() returns NULL when out of memory
                      /\ result' \in {name, NULL}
                   \/ /\ Len(name) + 1 > sizeofNameBuf
                      /\ pc' = "crashed"
                      /\ UNCHANGED result
    /\ UNCHANGED <<fileName, subFileName, cwd, envCache, envData, envRoot,
                   propDataOnly, propCacheOnly, dexRootInit, absoluteFile,
                   cacheRoot, dataRoot, systemRoot, dexRoot, cwdConsulted,
                   prefixMatched>>
    /\ UNCHANGED hdrVars

----------------------------------------------------------------------------
(* dexOptCreateEmptyHeader *)

\* DexOptHeader (DexFile.h): u1 magic[8]; u4 dexOffset; u4 dexLength;
\* u4 depsOffset; u4 depsLength; u4 optOffset; u4 optLength; u4 flags;
\* u4 checksum.
sizeofOptHdr == 40
dexOffsetAt == 8        \* byte offset of the dexOffset field

\* a u4 as the four bytes the machine stores
EncodeU4(v, big) ==
    LET le == <<v % 256, (v \div 256) % 256, (v \div 65536) % 256,
                (v \div 16777216) % 256>>
    IN  IF big THEN <<le[4], le[3], le[2], le[1]>> ELSE le
ReadU4(bytes, off, big) ==
    LET b == SubSeq(bytes, off + 1, off + 4)
        le == IF big THEN <<b[4], b[3], b[2], b[1]>> ELSE b
    IN  le[1] + 256 * le[2] + 65536 * le[3] + 16777216 * le[4]

\* lines 170-171: memset(&optHdr, 0xff, ...); optHdr.dexOffset = sizeof(optHdr)
OptHdrBytes(big) ==
    [i \in 1..sizeofOptHdr |->
        IF i > dexOffsetAt /\ i <= dexOffsetAt + 4
        THEN EncodeU4(sizeofOptHdr, big)[i - dexOffsetAt]
        ELSE 255]

\* the file after write() has transferred the first n bytes of buf at pos
WriteAt(f, pos, buf, n) ==
    [i \in 1..Max(Len(f), pos + n) |->
        IF i > pos /\ i <= pos + n THEN buf[i - pos]
        ELSE IF i <= Len(f) THEN f[i] ELSE 0]

\* line 176: the value returned when the write was not complete
FailureValue(err, e) == e

StaleContent == [i \in 1..(sizeofOptHdr + 8) |-> 0]
WriteResults == {-1, 0, 8, sizeofOptHdr - 1, sizeofOptHdr}
WriteErrnos == {5, 28}          \* EIO, ENOSPC
StaleErrnos == {0, 4}           \* errno left by earlier calls: none, EINTR
LogErrnos == {0, 11}            \* errno set while logging: none, EAGAIN

\* the caller opens the cache file and hands over the descriptor
OpenFile ==
    /\ pc = "idle"
    /\ file' \in {EmptyStr, StaleContent}
    /\ fdPos' \in {0, 8}
    /\ errno' \in StaleErrnos
    /\ assertsEnabled' \in BOOLEAN
    /\ bigEndian' \in BOOLEAN
    /\ fileAtCall' = file'
    /\ posAtCall' = fdPos'
    /\ pc' = "opened"
    /\ UNCHANGED <<actual, writeCalls, hdrRet>>
    /\ UNCHANGED genVars

\* lines 157-180
dexOptCreateEmptyHeader ==
    /\ pc = "opened"
    /\ IF assertsEnabled /\ fdPos # 0
       THEN \* line 162: assert(lseek(fd, 0, SEEK_CUR) == 0)
            /\ pc' = "aborted"
            /\ UNCHANGED <<file, fdPos, errno, actual, writeCalls, hdrRet>>
       ELSE \E n \in WriteResults, we \in WriteErrnos, le \in LogErrnos :
            LET moved    == Max(n, 0)
                afterWr  == IF n = -1 THEN we ELSE errno
                err      == IF afterWr # 0 THEN afterWr ELSE -1
                afterLog == IF le # 0 THEN le ELSE afterWr
            IN  /\ actual' = n
                /\ writeCalls' = writeCalls + 1
                /\ file' = WriteAt(file, fdPos, OptHdrBytes(bigEndian), moved)
                /\ fdPos' = fdPos + moved
                /\ IF n # sizeofOptHdr
                   THEN /\ errno' = afterLog
                        /\ hdrRet' = FailureValue(err, afterLog)
                   ELSE /\ errno' = afterWr
                        /\ hdrRet' = 0
                /\ pc' = "hdr_done"
    /\ UNCHANGED <<fileAtCall, posAtCall, assertsEnabled, bigEndian>>
    /\ UNCHANGED genVars

----------------------------------------------------------------------------
Nothing == <<"none">>

Init ==
    /\ pc = "idle"
    /\ fileName = Nothing /\ subFileName = Nothing /\ cwd = Nothing
    /\ envCache = Nothing /\ envData = Nothing /\ envRoot = Nothing
    /\ propDataOnly = Nothing /\ propCacheOnly = Nothing
    /\ dexRootInit = Nothing
    /\ absoluteFile = EmptyStr /\ nameBuf = EmptyStr
    /\ cacheRoot = Nothing /\ dataRoot = Nothing /\ systemRoot = Nothing
    /\ dexRoot = Nothing
    /\ stored = 0
    /\ cwdConsulted = FALSE
    /\ prefixMatched = FALSE
    /\ result = Nothing
    /\ file = EmptyStr /\ fdPos = 0
    /\ fileAtCall = EmptyStr /\ posAtCall = 0
    /\ errno = 0
    /\ assertsEnabled = FALSE /\ bigEndian = FALSE
    /\ actual = 0
    /\ writeCalls = 0
    /\ hdrRet = 0

Next ==
    \/ Call_dexOptGenerateCacheFileName
    \/ BuildAbsolutePath
    \/ FlattenPath
    \/ SelectRoot
    \/ ComposeAndReturn
    \/ OpenFile
    \/ dexOptCreateEmptyHeader

Spec == Init /\ [][Next]_vars

----------------------------------------------------------------------------
(* Vocabulary of the properties *)

IsPrefix(p, s) == Len(p) <= Len(s) /\ SubSeq(s, 1, Len(p)) = p
IsRelative == CharAt(fileName, 1) # "/"
Asserted(prop) == prop = One
HasInnerSlash(s) == \E i \in 2..Len(s) : s[i] = "/"

\* the path the caller asked for, before any buffer limit applies
Assembled ==
    (IF IsRelative THEN cwd \o <<"/">> ELSE EmptyStr)
        \o fileName
        \o (IF subFileName # NULL THEN <<"/">> \o subFileName ELSE EmptyStr)

\* the configured roots, or their defaults
ConfiguredCacheRoot == IF envCache = NULL THEN <<"/", "c", "a", "c", "h", "e">> ELSE envCache
ConfiguredDataRoot == IF envData = NULL THEN <<"/", "d", "a", "t", "a">> ELSE envData
ConfiguredSystemRoot ==
    IF envRoot = NULL THEN <<"/", "s", "y", "s", "t", "e", "m">> ELSE envRoot

NoOverrides == envCache = NULL /\ envData = NULL /\ envRoot = NULL
NoFlags == propDataOnly = EmptyStr /\ propCacheOnly = EmptyStr
Selected == pc \in {"compose", "done"}
Flattened == pc \in {"root", "compose", "done"}
Returned == pc = "done" /\ result # NULL

----------------------------------------------------------------------------
(* Properties *)

\* C1: a path that does not start with systemRoot, with neither
\* dexopt-data-only nor dexopt-cache-only asserted, is cached under dataRoot
\* (ANDROID_DATA, or "/data" when it is unset).
C1_OtherPathsUseDataRoot ==
    (Selected /\ ~IsPrefix(ConfiguredSystemRoot, absoluteFile)
        /\ ~Asserted(propDataOnly) /\ ~Asserted(propCacheOnly))
    => dexRoot = ConfiguredDataRoot

\* C2: when write() transfers anything but the whole header, the call
\* returns a non-zero value: errno when it is set, a generic failure
\* otherwise; never 0.
C2_IncompleteWriteFails ==
    (pc = "hdr_done" /\ actual # sizeofOptHdr)
    => /\ hdrRet # 0
       /\ errno # 0 => hdrRet = errno
       /\ errno = 0 => hdrRet = -1

\* C3: a path that does not fit the buffer at any stage makes the call
\* fail: nothing longer than the buffer is stored and no truncated path is
\* returned.
C3_OverflowFails ==
    /\ stored <= sizeofNameBuf
    /\ Flattened => Len(Assembled) <= kBufLen
    /\ Returned =>
          /\ Len(dexRoot) + 1 + Len(kDexCachePath) + Len(Assembled) <= kBufLen
          /\ result = dexRoot \o <<"/">> \o kDexCachePath \o absoluteFile

\* C4: when the assembled path fits the buffer, the flattened path starts
\* with '/', has no other '/', and differs from the assembled path only
\* where that had a '/'.
C4_FlattenedShape ==
    (Flattened /\ Len(Assembled) <= kBufLen)
    => /\ Len(absoluteFile) = Len(Assembled)
       /\ absoluteFile[1] = "/"
       /\ \A i \in 2..Len(absoluteFile) : absoluteFile[i] # "/"
       /\ \A i \in 1..Len(Assembled) :
             Assembled[i] # "/" => absoluteFile[i] = Assembled[i]

C4_Witness ==
    /\ pc = "root"
    /\ fileName = FooDex /\ cwd = HomeUser /\ subFileName = <<"a", "/", "b">>
    /\ absoluteFile = <<"/", "h", "o", "m", "e", "@", "u", "s", "e", "r", "@",
                        "f", "o", "o", ".", "d", "e", "x", "@", "a", "@", "b">>

\* C5: a flattened path that starts with systemRoot, with neither flag
\* asserted, is cached under cacheRoot (ANDROID_CACHE, or "/cache").
C5_SystemPathsUseCacheRoot ==
    (Selected /\ IsPrefix(ConfiguredSystemRoot, absoluteFile)
        /\ ~Asserted(propDataOnly) /\ ~Asserted(propCacheOnly))
    => /\ dexRoot = ConfiguredCacheRoot
       /\ (Returned /\ Len(dexRoot) + 1 + Len(kDexCachePath) < kBufLen)
             => IsPrefix(ConfiguredCacheRoot \o <<"/">> \o kDexCachePath, result)
       /\ (Returned /\ fileName = SystemAppBar /\ subFileName = NULL /\ NoOverrides)
             => result = <<"/", "c", "a", "c", "h", "e", "/", "d", "a", "l",
                           "v", "i", "k", "-", "c", "a", "c", "h", "e", "/",
                           "s", "y", "s", "t", "e", "m", "@", "a", "p", "p",
                           "@", "b", "a", "r", ".", "a", "p", "k">>

C5_Witness ==
    /\ Returned
    /\ fileName = SystemAppBar /\ subFileName = NULL
    /\ NoOverrides /\ NoFlags
    /\ dexRoot = <<"/", "c", "a", "c", "h", "e">>

\* C6: with dexopt-cache-only asserted the root is cacheRoot, whatever the
\* path and whatever dexopt-data-only says.
C6_CacheOnlyWins ==
    (Selected /\ Asserted(propCacheOnly))
    => /\ dexRoot = ConfiguredCacheRoot
       /\ (Returned /\ Len(dexRoot) + 1 + Len(kDexCachePath) < kBufLen)
             => IsPrefix(ConfiguredCacheRoot \o <<"/">> \o kDexCachePath, result)

C6_Witness ==
    /\ Returned
    /\ Asserted(propCacheOnly) /\ Asserted(propDataOnly)
    /\ fileName = SystemAppBar /\ envRoot = NULL
    /\ envCache = <<"/", "c">> /\ dexRoot = <<"/", "c">>

\* C7: when nothing exceeds the buffer the returned string is
\* root + "/" + "dalvik-cache" + flattened path; "/data/app/foo.apk" with
\* "classes.dex", no overrides and no flags gives
\* "/data/dalvik-cache/data@app@foo.apk@classes.dex".
C7_ComposedPath ==
    (Returned /\ Len(Assembled) <= kBufLen
        /\ Len(dexRoot) + 1 + Len(kDexCachePath) + Len(Assembled) <= kBufLen)
    => /\ result = dexRoot \o <<"/">> \o kDexCachePath \o absoluteFile
       /\ (fileName = DataAppFoo /\ subFileName = kClassesDex
              /\ NoOverrides /\ NoFlags)
          => result = <<"/", "d", "a", "t", "a", "/", "d", "a", "l", "v", "i",
                        "k", "-", "c", "a", "c", "h", "e", "/", "d", "a", "t",
                        "a", "@", "a", "p", "p", "@", "f", "o", "o", ".", "a",
                        "p", "k", "@", "c", "l", "a", "s", "s", "e", "s", ".",
                        "d", "e", "x">>

\* C8: called at offset 0 and returning 0, the call leaves the position at
\* the header size, the stub in the first header-size bytes (dexOffset equal
\* to the header size, 0xFF elsewhere), has made one write, and has written
\* nothing at or after the header size.
C8_HeaderPostcondition ==
    (pc = "hdr_done" /\ posAtCall = 0 /\ hdrRet = 0)
    => /\ fdPos = sizeofOptHdr
       /\ Len(file) >= sizeofOptHdr
       /\ ReadU4(file, dexOffsetAt, bigEndian) = sizeofOptHdr
       /\ \A i \in 1..sizeofOptHdr :
             (i <= dexOffsetAt \/ i > dexOffsetAt + 4) => file[i] = 255
       /\ writeCalls = 1
       /\ Len(file) = Max(Len(fileAtCall), sizeofOptHdr)
       /\ \A i \in (sizeofOptHdr + 1)..Len(file) : file[i] = fileAtCall[i]

\* C9: a relative inputPath is flattened as cwd + "/" + inputPath (+ "/" +
\* entryName); "foo.dex" in "/home/user" gives "/home@user@foo.dex"; without
\* a working directory the call returns NULL; an absolute inputPath does not
\* consult the working directory.
C9_RelativeUsesCwd ==
    /\ (Flattened /\ IsRelative) => absoluteFile = Flatten(Assembled)
    /\ (Flattened /\ fileName = FooDex /\ cwd = HomeUser /\ subFileName = NULL)
          => absoluteFile = <<"/", "h", "o", "m", "e", "@", "u", "s", "e", "r",
                              "@", "f", "o", "o", ".", "d", "e", "x">>
    /\ (pc \in {"flatten", "root", "compose", "done", "failed", "crashed"}
           /\ IsRelative /\ cwd = NULL)
          => pc = "failed" /\ result = NULL
    /\ (pc \in {"flatten", "root", "compose", "done", "failed", "crashed"}
           /\ ~IsRelative)
          => ~cwdConsulted /\ pc # "failed"

\* C10: a systemRoot with a '/' after its first character never matches the
\* flattened path, so such a path gets cacheRoot only through
\* dexopt-cache-only.
C10_NestedSystemRootNeverMatches ==
    (Selected /\ HasInnerSlash(ConfiguredSystemRoot))
    => /\ ~prefixMatched
       /\ ~IsPrefix(ConfiguredSystemRoot, absoluteFile)
       /\ ~Asserted(propCacheOnly)
             => dexRoot = (IF dexRootInit = NULL
                           THEN <<"/", "d", "a", "t", "a">> ELSE dexRootInit)

C10_Witness ==
    /\ Returned
    /\ envRoot = MntSystem /\ fileName = MntSystemAppBar
    /\ NoFlags /\ dexRootInit = NULL
    /\ dexRoot = <<"/", "d", "a", "t", "a">>

====
